---- MODULE Spec2Model ----
(***************************************************************************)
(* Model of patrace's client-side-buffer lifetime fixup tool               *)
(* (src/patrace/src/tool/clientsidetrim.cpp).                              *)
(*                                                                         *)
(* main() parses its arguments, opens the source trace and the destination,*)
(* writes the augmented header, drains the source once to harvest the      *)
(* per-thread last-use mapping, reopens the source, flattens the mapping   *)
(* into call number -> client-side buffer id, and copies every call to the *)
(* destination, injecting a glDeleteClientSideBuffer call after each call  *)
(* whose number is a key of the flattened map.                             *)
(*                                                                         *)
(* ParseInterface (the trace source), common::OutFile (the sink),          *)
(* CallTM::Serialize and addConversionEntry are not part of the sources at *)
(* hand; they are modelled from the specification's description of them.   *)
(***************************************************************************)
EXTENDS Integers, Sequences, FiniteSets, TLC

\* ------------------------------------------------------------------ bounds

\* Longest source trace, in call records.
MaxLen == 3

\* Largest number of command-line arguments after argv[0].
MaxArgs == 3

\* ------------------------------------------------------------ input domains

\* Thread ids of the recorded application.
Tids == {0, 1}

\* Client-side buffer ids a call may reference.
Bufs == {7, 9}

\* Call numbers: strictly increasing in file order; a trace shorter than
\* MaxLen may skip some.
CallNos == 1..MaxLen

\* Command-line words.  Only the first character and equality with "-h",
\* "-d", "-v" matter to main.
Tokens == {"-h", "-d", "-v", "-x", "in.pat"}

\* arg[0] == '-'
StartsWithDash(a) == a \in {"-h", "-d", "-v", "-x"}

\* Conversion histories a source header may carry.
PriorEntry == [operation |-> "upgrade_version", source |-> "old.pat", info |-> "{}"]
Headers == {<< >>, <<PriorEntry>>}

\* writeout's staging buffer: const unsigned int WRITE_BUF_LEN = 150*1024*1024
WRITE_BUF_LEN == 150 * 1024 * 1024

\* Serialized lengths a source call may have: small, exactly the capacity,
\* one byte more than the capacity.
SerializedLens == {1, WRITE_BUF_LEN, WRITE_BUF_LEN + 1}

\* ------------------------------------------------------------- call records

\* Marker of "no call" in the call and deletion slots.
NoCall == [mCallNo |-> -1, mTid |-> -1, mCallName |-> "", mArgs |-> << >>]

\* mCallNo of a CallTM built by name rather than read from a trace.
NoCallNo == 0

\* A call read from the source.  A call that references client-side buffer b
\* carries it as its argument.
SourceCall(no, tid, args) ==
    [mCallNo |-> no, mTid |-> tid,
     mCallName |-> IF args = << >> THEN "glDrawArrays" ELSE "glCopyClientSideBuffer",
     mArgs |-> args]

ArgLists == {<< >>} \cup {<<b>> : b \in Bufs}

\* All traces of exactly n calls whose call numbers are > lo and increasing.
RECURSIVE TracesFrom(_, _)
TracesFrom(n, lo) ==
    IF n = 0 THEN {<< >>}
    ELSE UNION { { <<SourceCall(no, t, a)>> \o rest :
                     rest \in TracesFrom(n - 1, no), t \in Tids, a \in ArgLists }
                 : no \in {c \in CallNos : c > lo} }

Traces == UNION { TracesFrom(n, 0) : n \in 0..MaxLen }

\* ----------------------------------------------------------------- state

VARIABLES
    pc,                     \* position in main
    exitCode,               \* main's return value, NoExit while running
    diagnostic,             \* what main printed on its way out, "" so far
    reported,               \* the count printed by line 154, NoCount so far
    argc,                   \* main's argc (argv[0] included)
    argIndex,               \* main's argIndex
    scanned,                \* argv[1..], as far as the option loop has read it
    debug,                  \* static bool debug
    source_trace_filename,  \* std::string source_trace_filename
    file,                   \* call records of the source trace file
    srcHeader,              \* inputFile->header (conversion history)
    srcState,               \* "none", "pass1", "closed", "pass2", "closed2"
    pos,                    \* calls the open source has produced so far
    srcLastUse,             \* the open source's client_side_last_use
    client_side_last_use,   \* main's copy, taken after pass 1
    sinkState,              \* "none", "open", "closed"
    sinkHeader,             \* header persisted in the sink, NoHeader before
    headerWrites,           \* number of WriteHeader calls
    out,                    \* calls handed to outputFile.Write, in order
    writeFailed,            \* some Write was rejected by the storage
    overran,                \* some Serialize wrote past the staging buffer
    callno_to_client_side_last_use, \* the flattened map
    lastInserted,           \* for each key, the (thread, buffer) that wrote it last
    call,                   \* main's current call, NoCall if none
    deletion,               \* the synthetic call being written, NoCall if none
    count                   \* int count

vars == <<pc, exitCode, diagnostic, reported, argc, argIndex, scanned, debug,
          source_trace_filename, file,
          srcHeader, srcState, pos, srcLastUse, client_side_last_use,
          sinkState, sinkHeader, headerWrites, out, writeFailed, overran,
          callno_to_client_side_last_use, lastInserted, call, deletion, count>>

\* Groups of variables, for the frame conditions.
exitVars == <<exitCode, diagnostic, reported>>
cliVars == <<argc, argIndex, scanned, debug, source_trace_filename>>
srcVars == <<file, srcHeader, srcState, pos, srcLastUse>>
sinkVars == <<sinkState, sinkHeader, headerWrites>>
writeVars == <<out, writeFailed, overran>>
mapVars == <<client_side_last_use, callno_to_client_side_last_use, lastInserted>>
loopVars == <<call, deletion, count>>

NoExit == -1
NoCount == -1
NoHeader == <<"no header">>
EmptyMap == << >>

\* ------------------------------------------------- last-use bookkeeping

\* One entry of thread -> (client-side buffer -> call number).
Entry(t, b, no) == [tid |-> t, buf |-> b, callNo |-> no]

\* client_side_last_use[t][b] = no
PutLastUse(lu, t, b, no) ==
    {e \in lu : ~(e.tid = t /\ e.buf = b)} \cup {Entry(t, b, no)}

\* What the source records when it produces call c: c is now the last call
\* of its thread that referenced each client-side buffer among its arguments.
NoteLastUse(lu, c) ==
    IF c.mArgs = << >> THEN lu ELSE PutLastUse(lu, c.mTid, c.mArgs[1], c.mCallNo)

\* ------------------------------------------------------------ flattening

\* The orders in which the nested loops of lines 129-137 can visit the
\* entries: all entries of one thread together, threads and buffers in the
\* containers' iteration order, which the code does not fix.
IterOrders(lu) ==
    { s \in [1..Cardinality(lu) -> lu] :
        /\ \A i, j \in DOMAIN s : i # j => s[i] # s[j]
        /\ \A i, j, k \in DOMAIN s :
              (i < j /\ j < k /\ s[i].tid = s[k].tid) => s[j].tid = s[i].tid }

\* The assignment with key and value exchanged: map[pair.first] = pair.second.
MapAssignSwapped(m, k, v) == (v :> k) @@ m

\* insert() in place of operator[]: an existing key keeps its value.
MapAssignInsertOnly(m, k, v) == IF k \in DOMAIN m THEN m ELSE (k :> v) @@ m

\* m[k] = v of std::map: inserts the key or overwrites its value.
MapAssign(m, k, v) == (k :> v) @@ m

\* callno_to_client_side_last_use after the loops visited order[1..n].
RECURSIVE FlattenUpTo(_, _)
FlattenUpTo(order, n) ==
    IF n = 0 THEN EmptyMap
    ELSE MapAssign(FlattenUpTo(order, n - 1), order[n].callNo, order[n].buf)

\* For each call number, the entry visited last among those carrying it.
LastVisited(order) ==
    [ no \in { order[i].callNo : i \in DOMAIN order } |->
        order[ CHOOSE i \in DOMAIN order :
                 /\ order[i].callNo = no
                 /\ \A j \in DOMAIN order : order[j].callNo = no => j <= i ] ]

\* map[k] of std::map used as an rvalue: a missing key is inserted with 0.
MapIndex(m, k) == IF k \in DOMAIN m THEN m ELSE (k :> 0) @@ m

\* ---------------------------------------------------------------- header

\* addConversionEntry(header, operation, source, info): appends one entry
\* to the header's conversion history.
addConversionEntry(header, operation, source, info) ==
    Append(header, [operation |-> operation, source |-> source, info |-> info])

\* ------------------------------------------------------------------ Init

Init ==
    /\ pc = "args"
    /\ exitCode = NoExit
    /\ diagnostic = ""
    /\ reported = NoCount
    /\ argc \in 1..(MaxArgs + 1)
    /\ argIndex = 1
    /\ scanned = << >>
    /\ debug = FALSE
    /\ source_trace_filename = ""
    /\ file = << >>
    /\ srcHeader = NoHeader
    /\ srcState = "none"
    /\ pos = 0
    /\ srcLastUse = {}
    /\ client_side_last_use = {}
    /\ sinkState = "none"
    /\ sinkHeader = NoHeader
    /\ headerWrites = 0
    /\ out = << >>
    /\ writeFailed = FALSE
    /\ overran = FALSE
    /\ callno_to_client_side_last_use = EmptyMap
    /\ lastInserted = EmptyMap
    /\ call = NoCall
    /\ deletion = NoCall
    /\ count = 0

\* Print msg; return code;
Return(code, msg) ==
    /\ pc' = "exit"
    /\ exitCode' = code
    /\ diagnostic' = msg
    /\ reported' = reported

\* ------------------------------------------------------- argument parsing

\* The option loop with -h returning 0, as -v does.
ParseArgHelpReturnsZero ==
    /\ pc = "args"
    /\ argIndex < argc
    /\ \E arg \in Tokens :
         /\ scanned' = Append(scanned, arg)
         /\ IF ~StartsWithDash(arg)
              THEN /\ pc' = "positional"
                   /\ UNCHANGED <<exitVars, argIndex, debug>>
            ELSE IF arg = "-h"
              THEN /\ Return(0, "help")
                   /\ UNCHANGED <<argIndex, debug>>
            ELSE IF arg = "-d"
              THEN /\ debug' = TRUE
                   /\ argIndex' = argIndex + 1
                   /\ UNCHANGED <<pc, exitVars>>
            ELSE IF arg = "-v"
              THEN /\ Return(0, "version")
                   /\ UNCHANGED <<argIndex, debug>>
              ELSE /\ Return(1, "Error: Unknown option")
                   /\ UNCHANGED <<argIndex, debug>>
    /\ UNCHANGED <<argc, source_trace_filename, srcVars, sinkVars, writeVars,
                   mapVars, loopVars>>

\* Lines 56-84: one iteration of the option loop, on arg = argv[argIndex].
ParseArg ==
    /\ pc = "args"
    /\ argIndex < argc
    /\ \E arg \in Tokens :
         /\ scanned' = Append(scanned, arg)
         /\ IF ~StartsWithDash(arg)
              THEN /\ pc' = "positional"
                   /\ UNCHANGED <<exitVars, argIndex, debug>>
            ELSE IF arg = "-h"
              THEN /\ Return(1, "help")
                   /\ UNCHANGED <<argIndex, debug>>
            ELSE IF arg = "-d"
              THEN /\ debug' = TRUE
                   /\ argIndex' = argIndex + 1
                   /\ UNCHANGED <<pc, exitVars>>
            ELSE IF arg = "-v"
              THEN /\ Return(0, "version")
                   /\ UNCHANGED <<argIndex, debug>>
              ELSE /\ Return(1, "Error: Unknown option")
                   /\ UNCHANGED <<argIndex, debug>>
    /\ UNCHANGED <<argc, source_trace_filename, srcVars, sinkVars, writeVars,
                   mapVars, loopVars>>

\* Line 56: the loop ends because the arguments are used up.
ArgsExhausted ==
    /\ pc = "args"
    /\ ~(argIndex < argc)
    /\ pc' = "positional"
    /\ UNCHANGED <<exitVars, cliVars, srcVars, sinkVars, writeVars, mapVars,
                   loopVars>>

\* Lines 86-90: fewer than two arguments are left.
MissingPositional ==
    /\ pc = "positional"
    /\ argIndex + 2 > argc
    /\ Return(1, "help")
    /\ UNCHANGED <<cliVars, srcVars, sinkVars, writeVars, mapVars, loopVars>>

\* ------------------------------------------------------------ opening

\* Lines 91-99 with the destination opened before the source: the open of
\* the source fails with the destination already there.
OpenSourceFailsOutputFirst ==
    /\ pc = "positional"
    /\ ~(argIndex + 2 > argc)
    /\ source_trace_filename' = scanned[argIndex]
    /\ argIndex' = argIndex + 1
    /\ sinkState' = "open"
    /\ Return(1, "Failed to open for reading")
    /\ UNCHANGED <<argc, scanned, debug, srcVars, sinkHeader, headerWrites,
                   writeVars, mapVars, loopVars>>

\* Lines 91-99, open fails.  argv[argIndex] is the word the option loop
\* stopped at.
OpenSourceFails ==
    /\ pc = "positional"
    /\ ~(argIndex + 2 > argc)
    /\ source_trace_filename' = scanned[argIndex]
    /\ argIndex' = argIndex + 1
    /\ Return(1, "Failed to open for reading")
    /\ UNCHANGED <<argc, scanned, debug, srcVars, sinkVars, writeVars, mapVars,
                   loopVars>>

\* Lines 91-99, open succeeds: the file holds some header and some trace.
OpenSource ==
    /\ pc = "positional"
    /\ ~(argIndex + 2 > argc)
    /\ source_trace_filename' = scanned[argIndex]
    /\ argIndex' = argIndex + 1
    /\ file' \in Traces
    /\ srcHeader' \in Headers
    /\ srcState' = "pass1"
    /\ pos' = 0
    /\ srcLastUse' = {}
    /\ pc' = "open_output"
    /\ UNCHANGED <<exitVars, argc, scanned, debug, sinkVars, writeVars, mapVars,
                   loopVars>>

\* Lines 101-107, Open fails.  The destination name is argv[argIndex], any word.
OpenOutputFails ==
    /\ pc = "open_output"
    /\ argIndex' = argIndex + 1
    /\ Return(1, "Failed to open for writing")
    /\ UNCHANGED <<argc, scanned, debug, source_trace_filename, srcVars, sinkVars,
                   writeVars, mapVars, loopVars>>

\* Lines 101-107, Open succeeds.
OpenOutput ==
    /\ pc = "open_output"
    /\ argIndex' = argIndex + 1
    /\ sinkState' = "open"
    /\ pc' = "header"
    /\ UNCHANGED <<exitVars, argc, scanned, debug, source_trace_filename, srcVars,
                   sinkHeader, headerWrites, writeVars, mapVars, loopVars>>

\* Json::Value info; of line 109: an empty value.
EmptyInfo == << >>

\* The header written before addConversionEntry is applied to it.
OutputHeaderUnaugmented == srcHeader

\* The header main hands to WriteHeader (lines 108-112).
OutputHeader ==
    addConversionEntry(srcHeader, "inject_client_side_delete",
                       source_trace_filename, EmptyInfo)

\* Lines 108-114.
WriteHeader ==
    /\ pc = "header"
    /\ sinkHeader' = OutputHeader
    /\ headerWrites' = headerWrites + 1
    /\ pc' = "pass1"
    /\ UNCHANGED <<exitVars, cliVars, srcVars, sinkState, writeVars, mapVars,
                   loopVars>>

\* ------------------------------------------------------------- pass 1

\* Line 117, next_call() returns a call: it is dropped.
NextCall1 ==
    /\ pc = "pass1"
    /\ pos < Len(file)
    /\ call' = file[pos + 1]
    /\ pos' = pos + 1
    /\ srcLastUse' = NoteLastUse(srcLastUse, file[pos + 1])
    /\ UNCHANGED <<pc, exitVars, cliVars, file, srcHeader, srcState, sinkVars,
                   writeVars, mapVars, deletion, count>>

\* What line 118 copies out of the source.
HarvestedLastUse == srcLastUse

\* The mapping copied and the source closed before the loop of line 117 has
\* drained it.
HarvestEarly ==
    /\ pc = "pass1"
    /\ call' = NoCall
    /\ client_side_last_use' = HarvestedLastUse
    /\ srcState' = "closed"
    /\ pc' = "reopen"
    /\ UNCHANGED <<exitVars, cliVars, file, srcHeader, pos, srcLastUse, sinkVars,
                   writeVars, callno_to_client_side_last_use, lastInserted,
                   deletion, count>>

\* Lines 117-121: next_call() returns null; the mapping is copied and the
\* source closed and deleted.
Harvest ==
    /\ pc = "pass1"
    /\ pos = Len(file)
    /\ call' = NoCall
    /\ client_side_last_use' = HarvestedLastUse
    /\ srcState' = "closed"
    /\ pc' = "reopen"
    /\ UNCHANGED <<exitVars, cliVars, file, srcHeader, pos, srcLastUse, sinkVars,
                   writeVars, callno_to_client_side_last_use, lastInserted,
                   deletion, count>>

\* The mappings a malformed source may expose in place of lu: lu itself, or
\* lu with one entry carrying the call number of another entry.
Malformed(lu) ==
    {lu} \cup { PutLastUse(lu, e.tid, e.buf, f.callNo) : e \in lu, f \in lu }

\* The same, for a source whose mapping is malformed.
HarvestMalformed ==
    /\ pc = "pass1"
    /\ pos = Len(file)
    /\ call' = NoCall
    /\ client_side_last_use' \in Malformed(srcLastUse)
    /\ srcState' = "closed"
    /\ pc' = "reopen"
    /\ UNCHANGED <<exitVars, cliVars, file, srcHeader, pos, srcLastUse, sinkVars,
                   writeVars, callno_to_client_side_last_use, lastInserted,
                   deletion, count>>

\* The failed second open without its return: the message, then on to pass 2.
ReopenFailsContinues ==
    /\ pc = "reopen"
    /\ diagnostic' = "Failed to open for reading again"
    /\ pc' = "flatten"
    /\ UNCHANGED <<exitCode, reported, cliVars, srcVars, sinkVars, writeVars,
                   mapVars, loopVars>>

\* Lines 122-127, open fails.
ReopenFails ==
    /\ pc = "reopen"
    /\ Return(1, "Failed to open for reading again")
    /\ UNCHANGED <<cliVars, srcVars, sinkVars, writeVars, mapVars, loopVars>>

\* The second pass on a source that is not rewound: it is at end of stream.
ReopenSamePosition ==
    /\ pc = "reopen"
    /\ srcState' = "pass2"
    /\ pc' = "flatten"
    /\ UNCHANGED <<exitVars, cliVars, file, srcHeader, pos, srcLastUse, sinkVars,
                   writeVars, mapVars, loopVars>>

\* Lines 122-127, open succeeds: a fresh source at the first call.
Reopen ==
    /\ pc = "reopen"
    /\ srcState' = "pass2"
    /\ pos' = 0
    /\ srcLastUse' = {}
    /\ pc' = "flatten"
    /\ UNCHANGED <<exitVars, cliVars, file, srcHeader, sinkVars, writeVars,
                   mapVars, loopVars>>

\* Lines 128-138.
Flatten ==
    /\ pc = "flatten"
    /\ \E order \in IterOrders(client_side_last_use) :
         /\ callno_to_client_side_last_use' = FlattenUpTo(order, Len(order))
         /\ lastInserted' = LastVisited(order)
    /\ count' = 0
    /\ pc' = "pass2"
    /\ UNCHANGED <<exitVars, cliVars, srcVars, sinkVars, writeVars,
                   client_side_last_use, call, deletion>>

\* ------------------------------------------------------------- pass 2

\* Line 139, next_call() returns a call.
NextCall2 ==
    /\ pc = "pass2"
    /\ pos < Len(file)
    /\ call' = file[pos + 1]
    /\ pos' = pos + 1
    /\ srcLastUse' = NoteLastUse(srcLastUse, file[pos + 1])
    /\ pc' = "write"
    /\ UNCHANGED <<exitVars, cliVars, file, srcHeader, srcState, sinkVars,
                   writeVars, mapVars, deletion, count>>

\* The call put in front of what was written so far.
SinkWritePrepend(c, ok) ==
    /\ out' = <<c>> \o out
    /\ writeFailed' = (writeFailed \/ ~ok)

\* outputFile.Write(buffer, len): the bytes are handed to the sink, which
\* may reject them; the result is not looked at (line 50).
SinkWrite(c, ok) ==
    /\ out' = Append(out, c)
    /\ writeFailed' = (writeFailed \/ ~ok)

\* writeout (lines 44-51) of call c whose serialized length is one of lens.
\* Serialize is not given the buffer's size: a longer call is written past
\* the end of the static buffer, which is undefined behaviour.  The process
\* may die there, or go on with the bytes it wrote.  Continue is what main
\* does after writeout returns, touched the variables Continue sets.
Writeout(c, lens, Continue, touched) ==
    \E len \in lens, ok \in BOOLEAN :
       IF len <= WRITE_BUF_LEN
         THEN /\ SinkWrite(c, ok)
              /\ overran' = overran
              /\ Continue
         ELSE \/ /\ pc' = "crashed"
                 /\ UNCHANGED <<writeVars, touched>>
              \/ /\ SinkWrite(c, ok)
                 /\ overran' = TRUE
                 /\ Continue

\* The synthetic call carrying the call number in place of the buffer id.
DeletionOfCallNo(c, m) ==
    [mCallNo |-> NoCallNo, mTid |-> c.mTid,
     mCallName |-> "glDeleteClientSideBuffer", mArgs |-> <<c.mCallNo>>]

\* The synthetic call without line 146: mTid keeps the constructor's value.
DeletionWithoutTid(c, m) ==
    [mCallNo |-> NoCallNo, mTid |-> 0,
     mCallName |-> "glDeleteClientSideBuffer", mArgs |-> <<m[c.mCallNo]>>]

\* The synthetic call of lines 144-146.
Deletion(c, m) ==
    [mCallNo |-> NoCallNo, mTid |-> c.mTid,
     mCallName |-> "glDeleteClientSideBuffer", mArgs |-> <<m[c.mCallNo]>>]

\* Line 142 with >= 0 in place of > 0.
IsLastUseAlways(m, c) == TRUE

\* Line 142.
IsLastUse(m, c) == c.mCallNo \in DOMAIN m

\* Lines 142-146 with the entry erased once its deletion is built.
AfterWriteCallErasing ==
    IF IsLastUse(callno_to_client_side_last_use, call)
      THEN /\ deletion' = Deletion(call, callno_to_client_side_last_use)
           /\ callno_to_client_side_last_use' =
                [no \in DOMAIN callno_to_client_side_last_use \ {call.mCallNo}
                   |-> callno_to_client_side_last_use[no]]
           /\ pc' = "write_deletion"
      ELSE /\ pc' = "pass2"
           /\ UNCHANGED <<callno_to_client_side_last_use, deletion>>

\* Lines 142-146 with the deletion built but its write put off until after
\* the next call is read.
AfterWriteCallDefers ==
    IF IsLastUse(callno_to_client_side_last_use, call)
      THEN /\ callno_to_client_side_last_use' =
                MapIndex(callno_to_client_side_last_use, call.mCallNo)
           /\ deletion' = Deletion(call, callno_to_client_side_last_use')
           /\ pc' = "pass2"
      ELSE /\ pc' = "pass2"
           /\ UNCHANGED <<callno_to_client_side_last_use, deletion>>

\* Lines 142-146, after the call is written.
AfterWriteCall ==
    IF IsLastUse(callno_to_client_side_last_use, call)
      THEN /\ callno_to_client_side_last_use' =
                MapIndex(callno_to_client_side_last_use, call.mCallNo)
           /\ deletion' = Deletion(call, callno_to_client_side_last_use')
           /\ pc' = "write_deletion"
      ELSE /\ pc' = "pass2"
           /\ UNCHANGED <<callno_to_client_side_last_use, deletion>>

\* Lines 141-146.
WriteCall ==
    /\ pc = "write"
    /\ Writeout(call, SerializedLens, AfterWriteCall,
                <<callno_to_client_side_last_use, deletion>>)
    /\ UNCHANGED <<exitVars, cliVars, srcVars, sinkVars, client_side_last_use,
                   lastInserted, call, count>>

\* Lines 147-149 without count++.
AfterWriteDeletionUncounted ==
    /\ count' = count
    /\ deletion' = NoCall
    /\ pc' = "pass2"

\* Lines 147-149, after the deletion is written; the deletion goes out of scope.
AfterWriteDeletion ==
    /\ count' = count + 1
    /\ deletion' = NoCall
    /\ pc' = "pass2"

\* A deletion (a name and one integer) always fits the staging buffer.
DeletionLens == {1}

\* Lines 147-149.
WriteDeletion ==
    /\ pc = "write_deletion"
    /\ Writeout(deletion, DeletionLens, AfterWriteDeletion, <<deletion, count>>)
    /\ UNCHANGED <<exitVars, cliVars, srcVars, sinkVars, mapVars, call>>

\* Lines 139, 151-155: next_call() returns null; both files are closed.
Finish ==
    /\ pc = "pass2"
    /\ pos = Len(file)
    /\ call' = NoCall
    /\ srcState' = "closed2"
    /\ sinkState' = "closed"
    /\ pc' = "exit"
    /\ exitCode' = 0
    /\ diagnostic' = "Injected deletion calls"
    /\ reported' = count
    /\ UNCHANGED <<cliVars, file, srcHeader, pos, srcLastUse, sinkHeader,
                   headerWrites, writeVars, mapVars, deletion, count>>

\* ----------------------------------------------------------- specification

\* Everything but the copy of the mapping out of the source.
Common ==
    \/ ParseArg
    \/ ArgsExhausted
    \/ MissingPositional
    \/ OpenSourceFails
    \/ OpenSource
    \/ OpenOutputFails
    \/ OpenOutput
    \/ WriteHeader
    \/ NextCall1
    \/ ReopenFails
    \/ Reopen
    \/ Flatten
    \/ NextCall2
    \/ WriteCall
    \/ WriteDeletion
    \/ Finish

Next == Common \/ Harvest

Spec == Init /\ [][Next]_vars

\* The tool on a source whose last-use mapping is malformed.
NextMalformed == Common \/ HarvestMalformed

SpecMalformed == Init /\ [][NextMalformed]_vars

\* ------------------------------------------------------------ properties

\* The header the sink must hold: the source's plus the provenance entry.
ExpectedHeader ==
    Append(srcHeader, [operation |-> "inject_client_side_delete",
                       source |-> source_trace_filename, info |-> EmptyInfo])

\* A call injected by the tool rather than read from the source.
IsSynthetic(c) == c.mCallName = "glDeleteClientSideBuffer"

IsOriginal(c) == ~IsSynthetic(c)

\* The output with the injected calls removed.
Originals(s) == SelectSeq(s, IsOriginal)

\* main returned 0 from line 155.
Done == pc = "exit" /\ exitCode = 0 /\ sinkState = "closed"

\* Positions of the output holding a deletion of e's buffer on e's thread.
DeletionsFor(e) ==
    { i \in DOMAIN out :
        IsSynthetic(out[i]) /\ out[i].mArgs = <<e.buf>> /\ out[i].mTid = e.tid }

\* C1 (completeness): when the run completes, every (thread, buffer, call
\* number) entry of the last-use mapping has exactly one injected deletion of
\* that buffer on that thread in the output, placed directly after the
\* source call with that number and directly before the next source call.
C1_Completeness ==
    Done =>
      \A e \in client_side_last_use :
        /\ Cardinality(DeletionsFor(e)) = 1
        /\ \A i \in DeletionsFor(e) :
             /\ i > 1
             /\ \E k \in DOMAIN file :
                  file[k].mCallNo = e.callNo /\ out[i - 1] = file[k]
             /\ i < Len(out) => IsOriginal(out[i + 1])

\* A completed run with last uses on two threads and a deletion that is
\* followed by a further source call.
C1_Witness ==
    /\ Done
    /\ \E e1, e2 \in client_side_last_use : e1.tid # e2.tid
    /\ \E i \in DOMAIN out : IsSynthetic(out[i]) /\ i < Len(out)

\* C2 (non-interference): the output without the injected calls is, at every
\* moment, the source calls read so far in pass 2, unchanged and in order,
\* and is the whole source trace when the run completes.
C2_NonInterference ==
    /\ Len(Originals(out)) <= Len(file)
    /\ Originals(out) = SubSeq(file, 1, Len(Originals(out)))
    /\ Done => Originals(out) = file

\* A completed run over at least two calls with at least one injection.
C2_Witness ==
    /\ Done
    /\ Len(file) >= 2
    /\ Len(out) > Len(file)

\* C3 (thread affinity): every injected deletion directly follows a source
\* call and carries that call's thread id.
C3_ThreadAffinity ==
    \A i \in DOMAIN out :
      IsSynthetic(out[i]) =>
        /\ i > 1
        /\ IsOriginal(out[i - 1])
        /\ out[i].mTid = out[i - 1].mTid

\* Deletions were injected on thread 0 and on thread 1.
C3_Witness ==
    \E i, j \in DOMAIN out :
      /\ IsSynthetic(out[i]) /\ out[i].mTid = 0
      /\ IsSynthetic(out[j]) /\ out[j].mTid = 1

\* C4 (order preservation): source calls appear in the output in the order
\* of their call numbers, and all of them appear when the run completes.
C4_OrderPreservation ==
    /\ \A i, j \in DOMAIN out :
         (IsOriginal(out[i]) /\ IsOriginal(out[j])
            /\ out[i].mCallNo < out[j].mCallNo) => i < j
    /\ Done => \A k \in DOMAIN file : \E i \in DOMAIN out : out[i] = file[k]

\* A completed run in which a deletion stands between two source calls.
C4_Witness ==
    /\ Done
    /\ \E i \in DOMAIN out :
         /\ i > 1 /\ i < Len(out)
         /\ IsSynthetic(out[i])
         /\ out[i - 1].mCallNo < out[i + 1].mCallNo

\* C5 (empty-map copy): a run that harvested an empty last-use mapping and
\* completes has written exactly the source calls, no deletion, reports 0,
\* and its header is the source header plus the one provenance entry.
C5_EmptyMapCopy ==
    (Done /\ client_side_last_use = {}) =>
      /\ out = file
      /\ count = 0
      /\ reported = 0
      /\ sinkHeader = ExpectedHeader

\* A completed copy of a trace of two or more calls with no last use.
C5_Witness ==
    /\ Done
    /\ client_side_last_use = {}
    /\ Len(file) >= 2
    /\ out = file

\* Entries of the harvested mapping that carry call number no.
EntriesAt(no) == {e \in client_side_last_use : e.callNo = no}

\* The flattening loops have run.
Flattened == pc \in {"pass2", "write", "write_deletion", "crashed"} \/ Done

\* Positions of the output holding an injected call right after source call c.
InjectedAfter(c) ==
    { i \in DOMAIN out : i > 1 /\ IsSynthetic(out[i]) /\ out[i - 1] = c }

\* C6 (ordinal collision): when two or more entries of the harvested mapping
\* carry one call number, the flattened map holds for it the buffer of the
\* entry the loops visited last, and a completed run has injected exactly
\* one call after the source call with that number: a deletion of that buffer.
C6_CollisionLastWriteWins ==
    Flattened =>
      \A no \in CallNos :
        Cardinality(EntriesAt(no)) >= 2 =>
          /\ no \in DOMAIN callno_to_client_side_last_use
          /\ lastInserted[no] \in EntriesAt(no)
          /\ callno_to_client_side_last_use[no] = lastInserted[no].buf
          /\ Done =>
               \A k \in DOMAIN file :
                 file[k].mCallNo = no =>
                   /\ Cardinality(InjectedAfter(file[k])) = 1
                   /\ \A i \in InjectedAfter(file[k]) :
                        out[i].mArgs = <<callno_to_client_side_last_use[no]>>

\* A completed run whose mapping gave one call number to different buffers
\* on two threads, with the deletion injected after the call of that number.
C6_Witness ==
    /\ Done
    /\ \E e1, e2 \in client_side_last_use :
         /\ e1.tid # e2.tid /\ e1.buf # e2.buf /\ e1.callNo = e2.callNo
         /\ \E k \in DOMAIN file :
              file[k].mCallNo = e1.callNo /\ InjectedAfter(file[k]) # {}

\* C7 (header provenance and ordering): the header is written at most once;
\* whenever written it is the source header plus the one provenance entry;
\* and it has been written exactly once as soon as any call is in the output.
C7_HeaderOnceBeforeCalls ==
    /\ headerWrites <= 1
    /\ headerWrites = 0 => sinkHeader = NoHeader
    /\ headerWrites = 1 => sinkHeader = ExpectedHeader
    /\ Len(out) > 0 => headerWrites = 1

\* Calls are in the output under a header that extends a source history.
C7_Witness ==
    /\ Len(out) > 1
    /\ Len(srcHeader) = 1
    /\ Len(sinkHeader) = 2
    /\ headerWrites = 1

\* main printed one of its three open failures.
OpenFailed ==
    diagnostic \in {"Failed to open for reading", "Failed to open for writing",
                    "Failed to open for reading again"}

\* C8 (open failures are fatal): after any failed open the run has ended with
\* exit code 1, takes no further step, and no call was written to the sink;
\* the failed first open leaves the sink untouched, the failed reopen leaves
\* at most the header.
C8_OpenFailuresFatal ==
    OpenFailed =>
      /\ pc = "exit"
      /\ exitCode = 1
      /\ ~ENABLED Next
      /\ out = << >>
      /\ count = 0
      /\ headerWrites <= 1
      /\ diagnostic = "Failed to open for reading" =>
           sinkState = "none" /\ headerWrites = 0

\* The reopen failed after the header was written for a non-empty trace.
C8_Witness ==
    /\ diagnostic = "Failed to open for reading again"
    /\ pc = "exit"
    /\ headerWrites = 1
    /\ Len(file) >= 1

\* writeout was given a call longer than its staging buffer.
Overflowed == overran \/ pc = "crashed"

\* C9 (serialization overflow is detected), as claimed: once a call longer
\* than the staging buffer reaches writeout, the run has ended with a
\* reported failure and nothing was written past the buffer.
C9_OverflowDetected ==
    Overflowed =>
      /\ pc = "exit"
      /\ exitCode = 1
      /\ diagnostic # ""
      /\ ~overran

\* C10 (write failure aborts), as claimed: once the sink rejected a write,
\* no further source call is read, no further call is written, and the run
\* does not end with exit code 0.
C10_WriteFailureAborts ==
    /\ [][writeFailed => (pos' = pos /\ out' = out)]_vars
    /\ [](writeFailed => exitCode # 0)


\* Positions of the output holding an injected call.
SyntheticPositions == {i \in DOMAIN out : IsSynthetic(out[i])}

\* Positions of the source trace whose call number is a key of the map.
LastUsePositions ==
    {k \in DOMAIN file : file[k].mCallNo \in DOMAIN callno_to_client_side_last_use}

\* C11 (reported count): when the run completes, the count it prints is
\* count, is the number of injected deletions in the output, is the number of
\* source calls whose number is a key of the flattened map, and the output
\* holds as many calls as the source trace plus that count.
C11_ReportedCount ==
    Done =>
      /\ reported = count
      /\ reported = Cardinality(SyntheticPositions)
      /\ reported = Cardinality(LastUsePositions)
      /\ Len(out) = Len(file) + reported

\* A completed run that reports two deletions, with a call that got none.
C11_Witness ==
    /\ Done
    /\ reported = 2
    /\ Len(file) = 3


\* The last word the option loop read.
LastScanned == scanned[Len(scanned)]

\* The option loop stopped at a word that does not start with '-'.
StoppedAtWord == Len(scanned) > 0 /\ ~StartsWithDash(LastScanned)

\* The option loop is over without an exit: it stopped at a word, or every
\* argument was -d.
ScanOver ==
    \/ StoppedAtWord
    \/ /\ Len(scanned) = argc - 1
       /\ \A i \in DOMAIN scanned : scanned[i] = "-d"

\* Arguments left when the option loop is over, the word it stopped at included.
Remaining ==
    argc - (IF StoppedAtWord THEN Len(scanned) ELSE Len(scanned) + 1)

\* main returned from the option loop or from the check of line 86.
EarlyExit == diagnostic \in {"help", "version", "Error: Unknown option"}

\* C12 (CLI exit paths): reading the arguments left to right, only -d lets
\* the scan go on, and it only sets debug; -h ends the run with 1, -v with 0,
\* any other word starting with '-' with 1; a word not starting with '-'
\* stops the scan; with fewer than two arguments left the run ends with 1,
\* with two or more it goes on to open the files.
C12_CliExitPaths ==
    /\ Len(scanned) <= argc - 1
    /\ \A i \in 1..(Len(scanned) - 1) : scanned[i] = "-d"
    /\ debug = (\E i \in DOMAIN scanned : scanned[i] = "-d")
    /\ Len(scanned) > 0 =>
         /\ LastScanned = "-h" => (pc = "exit" /\ exitCode = 1)
         /\ LastScanned = "-v" => (pc = "exit" /\ exitCode = 0)
         /\ (StartsWithDash(LastScanned) /\ LastScanned \notin {"-h", "-d", "-v"})
              => (pc = "exit" /\ exitCode = 1)
         /\ (LastScanned = "-d" /\ Len(scanned) < argc - 1)
              => (pc = "args" /\ exitCode = NoExit /\ argIndex = Len(scanned) + 1)
         /\ StoppedAtWord => pc # "args"
    /\ (ScanOver /\ Remaining < 2) =>
         \/ pc \in {"args", "positional"}
         \/ (pc = "exit" /\ exitCode = 1 /\ diagnostic = "help")
    /\ (ScanOver /\ Remaining >= 2) => ~EarlyExit

\* -d, then -v: the run ended with 0 and debug set.
C12_Witness ==
    /\ Len(scanned) = 2
    /\ scanned[1] = "-d"
    /\ scanned[2] = "-v"
    /\ exitCode = 0
    /\ debug


\* C13 (no spurious deletions): every injected deletion directly follows a
\* source call whose number is a key of the flattened map and carries one
\* argument, the buffer id the map holds for that number; a source call
\* whose number is not a key is directly followed by the next source call.
C13_NoSpuriousDeletions ==
    \A i \in DOMAIN out :
      /\ IsSynthetic(out[i]) =>
           /\ i > 1
           /\ IsOriginal(out[i - 1])
           /\ out[i - 1].mCallNo \in DOMAIN callno_to_client_side_last_use
           /\ Len(out[i].mArgs) = 1
           /\ out[i].mArgs[1] = callno_to_client_side_last_use[out[i - 1].mCallNo]
      /\ ( /\ IsOriginal(out[i])
           /\ out[i].mCallNo \notin DOMAIN callno_to_client_side_last_use
           /\ i < Len(out) ) => IsOriginal(out[i + 1])

\* The output holds a deletion of buffer 9 and, elsewhere, a source call
\* outside the map directly followed by another source call.
C13_Witness ==
    /\ \E i \in DOMAIN out : IsSynthetic(out[i]) /\ out[i].mArgs = <<9>>
    /\ \E i \in DOMAIN out :
         /\ i < Len(out)
         /\ IsOriginal(out[i]) /\ IsOriginal(out[i + 1])
         /\ out[i].mCallNo \notin DOMAIN callno_to_client_side_last_use


\* Pass 2 is reading and writing calls.
InPass2 == pc \in {"pass2", "write", "write_deletion"}

\* C14 (the map is read-only while rewriting): no step of pass 2, whether
\* its lookup finds the call number or not, changes the flattened map; at
\* completion the map's keys are still the call numbers of the harvested
\* mapping.
C14_MapReadOnlyInPass2 ==
    /\ [][InPass2 =>
            callno_to_client_side_last_use' = callno_to_client_side_last_use]_vars
    /\ [](Done => DOMAIN callno_to_client_side_last_use
                    = {e.callNo : e \in client_side_last_use})

\* A completed run whose lookups both found and missed call numbers.
C14_Witness ==
    /\ Done
    /\ count >= 1
    /\ \E k \in DOMAIN file :
         file[k].mCallNo \notin DOMAIN callno_to_client_side_last_use


\* The last-use mapping of the first n calls of trace f.
RECURSIVE LastUseUpTo(_, _)
LastUseUpTo(f, n) ==
    IF n = 0 THEN {} ELSE NoteLastUse(LastUseUpTo(f, n - 1), f[n])

\* C15 (phase separation): nothing is written to the sink while the pass-1
\* source is open or just closed; that source is left only at end of stream,
\* by closing it; the pass-2 source is opened only after that close and
\* starts before the first call; and the mapping main holds from then on,
\* from which the pass-2 map is built, is that of the whole trace.
C15_PhaseSeparation ==
    /\ [](srcState \in {"none", "pass1", "closed"} => out = << >>)
    /\ [][(srcState = "pass1" /\ srcState' # "pass1")
            => (pos = Len(file) /\ srcState' = "closed")]_vars
    /\ [][(srcState # "pass2" /\ srcState' = "pass2")
            => (srcState = "closed" /\ pos' = 0)]_vars
    /\ [](srcState \in {"closed", "pass2", "closed2"}
            => client_side_last_use = LastUseUpTo(file, Len(file)))
    /\ [](InPass2 => DOMAIN callno_to_client_side_last_use
                       = {e.callNo : e \in LastUseUpTo(file, Len(file))})

\* The pass-2 source is open before the first call of a three-call trace
\* whose last call is a last use.
C15_Witness ==
    /\ srcState = "pass2"
    /\ pos = 0
    /\ Len(file) = 3
    /\ \E e \in client_side_last_use : e.callNo = file[3].mCallNo


\* The number of calls pass 2 has read and not yet handed to the sink.
Unwritten == pos - Len(Originals(out))

\* The number of written last-use calls whose deletion is not yet written.
PendingDeletions ==
    Cardinality({k \in 1..Len(Originals(out)) :
                   file[k].mCallNo \in DOMAIN callno_to_client_side_last_use})
      - Cardinality(SyntheticPositions)

\* C16 (bounded residency): pass 1 builds no deletion and writes nothing;
\* in pass 2 at most one call read from the source is not yet written, and it
\* is the one main holds; at most one deletion exists, only right after its
\* last-use call was written, never together with an unwritten call; and when
\* the next call is about to be read nothing is unwritten or pending.
C16_BoundedResidency ==
    /\ srcState \in {"pass1", "closed"} => (deletion = NoCall /\ out = << >>)
    /\ deletion # NoCall
         => /\ pc \in {"write_deletion", "crashed"}
            /\ call # NoCall
            /\ out # << >> /\ out[Len(out)] = call
            /\ deletion = Deletion(call, callno_to_client_side_last_use)
    /\ srcState = "pass2"
         => /\ Unwritten \in {0, 1}
            /\ PendingDeletions \in {0, 1}
            /\ Unwritten + PendingDeletions <= 1
            /\ (Unwritten = 1 => call = file[pos])
            /\ (PendingDeletions = 1 => deletion # NoCall)
            /\ (pc = "pass2" => /\ Unwritten = 0
                                /\ PendingDeletions = 0
                                /\ deletion = NoCall)

\* The deletion of the second call is held, after two calls were written.
C16_Witness ==
    /\ pc = "write_deletion"
    /\ pos = 2
    /\ Len(file) = 3
    /\ Len(out) = 2
    /\ deletion # NoCall


\* Both files were opened and no later open failed.
Underway == srcState # "none" /\ sinkState # "none" /\ ~OpenFailed

\* C17 (termination), as claimed: once both files are open and no open
\* fails, the run is never stuck short of its end; it ends with exit code 0,
\* the source read to its end for the second time, the pass-2 source and the
\* sink closed; and nothing happens after the sink is closed.
C17_Termination ==
    /\ (Underway /\ pc # "exit") => ENABLED Next
    /\ (Underway /\ pc = "exit")
         => /\ exitCode = 0
            /\ pos = Len(file)
            /\ srcState = "closed2"
            /\ sinkState = "closed"
    /\ sinkState = "closed" => ~ENABLED Next


\* Neither file was opened, nothing was written.
NoFileTouched ==
    /\ srcState = "none"
    /\ file = << >>
    /\ sinkState = "none"
    /\ headerWrites = 0
    /\ out = << >>

\* C18 (early exits touch no files): a run ended by -h, -v, an unknown
\* option or too few arguments has opened neither file; a run ended by the
\* failed open of the pass-1 source has not opened the destination nor
\* written to it, and does nothing more; and the destination is opened, or
\* its open attempted, only with the source already open.
C18_EarlyExitsTouchNoFiles ==
    /\ EarlyExit => (pc = "exit" /\ NoFileTouched /\ ~ENABLED Next)
    /\ diagnostic = "Failed to open for reading"
         => (pc = "exit" /\ NoFileTouched /\ ~ENABLED Next)
    /\ (sinkState # "none" \/ pc = "open_output"
          \/ diagnostic = "Failed to open for writing") => srcState # "none"

\* The open of the source named after -d failed.
C18_Witness ==
    /\ pc = "exit"
    /\ diagnostic = "Failed to open for reading"
    /\ debug
    /\ argc = 4
    /\ sinkState = "none"

====
